---- MODULE Spec2Model ----
(***************************************************************************)
(* A model of unwindingtest.cpp: a stress test that throws C++ exceptions  *)
(* through JIT-compiled frames.  The model follows the source function by  *)
(* function: the JITContainer (construction through the LLVM ORC engine,   *)
(* invoke, destruction), the callback, the checking helper doTest, the     *)
(* xorshift generator Random, one timed pass doTest(errorRate, seed), the  *)
(* thread orchestration doTestMultithreaded, and main with the default     *)
(* thread counts, its command line and its sweep.                          *)
(*                                                                         *)
(* Unsigned words of 64 and of 32 bits are sets of bit positions (bit 0 is *)
(* the least significant one), because the model checker's integers are   *)
(* 32 bits wide and signed; 32-bit ints are integers in IntMin..IntMax.    *)
(***************************************************************************)
EXTENDS Integers, Sequences, FiniteSets, TLC

(***************************************************************************)
(* Bounds of the model.                                                    *)
(***************************************************************************)
\* probe inputs of the checking helper range over -MaxSmall..MaxSmall
\* (and the boundary values of int, see ProbeInputs)
MaxSmall == 4
\* thread counts of the sweep are at most MaxThreads
MaxThreads == 2
\* a pass takes 0..MaxDuration milliseconds
MaxDuration == 2
\* loop limits of the shortened pass that several threads interleave
MaxPasses == 2
MaxCalls == 1
\* rounds of a pass in which the generator may return a probe word
MaxProbes == 1
\* seeds and rounds of the pass that SpecGen runs on its own
MaxSeed == 3
MaxDraws == 12
\* rounds of the pass of each thread in SpecRow
MaxRowDraws == 10
\* rounds of each unit whose invocations enter the history seen
MaxTracked == 1

(***************************************************************************)
(* Constants of the program.                                               *)
(***************************************************************************)
\* constexpr unsigned functionRepeat = 10;
FunctionRepeat == 10
\* mutant: one round less on each unit
RepeatOneShort == 10000 - 1

\* constexpr unsigned repeat = 10000;
Repeat == 10000
\* const unsigned failureRates[] = {0, 1, 10, 100};
FailureRates == <<0, 1, 10, 100>>
\* sanityTest: the (input, expected) pairs of its four doTest calls
SanityCases == <<<<2, 1>>, <<1, 4>>, <<0, -1>>, <<-1, -1>>>>

(***************************************************************************)
(* Machine integers.                                                       *)
(***************************************************************************)
IntMax == 2147483647
IntMin == -IntMax - 1
\* the largest v for which 3 * v + 1 is still an int
MaxNoOverflow == (IntMax - 1) \div 3

Bits == 0..63
Limbs == 0..7

\* the uint64_t with value v, for 0 <= v <= IntMax
FromNat(v) == {i \in 0..30 : (v \div (2^i)) % 2 = 1}

\* byte l of the word x
Limb(x, l) ==
  LET b(i, w) == IF (8 * l + i) \in x THEN w ELSE 0
  IN b(0, 1) + b(1, 2) + b(2, 4) + b(3, 8) + b(4, 16) + b(5, 32) + b(6, 64)
     + b(7, 128)

\* the bits set in a byte
ByteBits == [v \in 0..255 |-> {b \in 0..7 : (v \div (2^b)) % 2 = 1}]

\* the word whose bytes are the sequence s (s[1] is the least significant)
FromLimbs(s) == UNION {{8 * l + b : b \in ByteBits[s[l + 1]]} : l \in Limbs}

Shr(x, k) == {i - k : i \in {j \in x : j >= k}}
Shl(x, k) == {i + k : i \in {j \in x : j + k <= 63}}
Xor(a, b) == (a \ b) \cup (b \ a)

\* x % m for a word x and 0 < m <= 65536, byte by byte from the top
ModWord(x, m) ==
  LET h7 == Limb(x, 7) % m
      h6 == (h7 * 256 + Limb(x, 6)) % m
      h5 == (h6 * 256 + Limb(x, 5)) % m
      h4 == (h5 * 256 + Limb(x, 4)) % m
      h3 == (h4 * 256 + Limb(x, 3)) % m
      h2 == (h3 * 256 + Limb(x, 2)) % m
      h1 == (h2 * 256 + Limb(x, 1)) % m
  IN (h1 * 256 + Limb(x, 0)) % m

\* static_cast<int>(x): the low 32 bits of x read as two's complement
ToInt(x) ==
  LET low == Limb(x, 0) + 256 * Limb(x, 1) + 65536 * Limb(x, 2)
             + 16777216 * (Limb(x, 3) % 128)
  IN IF 31 \in x THEN low + IntMin ELSE low

\* static_cast<uint64_t>(v) for an int v: sign extension
FromInt(v) ==
  IF v >= 0 THEN FromNat(v) ELSE FromNat(v - IntMin) \cup (31..63)

\* a 32-bit unsigned is a word with bits 0..31 only
One == {0}

\* a < b on unsigned words: the highest bit in which they differ is set in b
LessWord(a, b) == \E i \in b \ a : \A j \in Xor(a, b) : j <= i

\* mutant: the doubled count is not capped
MinWordFirst(a, b) == a

\* std::min(a, b): b if b < a, else a
MinWord(a, b) == IF LessWord(b, a) THEN b ELSE a

\* x * 2 on unsigned: bit 31 is shifted out
Twice(x) == {i + 1 : i \in {j \in x : j + 1 <= 31}}

\* x / 2 on unsigned
Half(x) == Shr(x, 1)

\* unsigned c = v: the conversion of an int to unsigned (modulo 2^32)
ToUnsigned(v) == FromInt(v) \cap (0..31)

(***************************************************************************)
(* struct Random: the xorshift generator.                                  *)
(***************************************************************************)
\* the bytes of 0x2545F4914F6CDD1D, least significant first
Multiplier == <<29, 221, 108, 79, 145, 244, 69, 37>>

\* x * 0x2545F4914F6CDD1D modulo 2^64, by byte columns with carry
MulWord(x) ==
  LET xl == <<Limb(x, 0), Limb(x, 1), Limb(x, 2), Limb(x, 3),
              Limb(x, 4), Limb(x, 5), Limb(x, 6), Limb(x, 7)>>
      t(i, k) == IF i <= k THEN xl[i + 1] * Multiplier[k - i + 1] ELSE 0
      col(k) == t(0, k) + t(1, k) + t(2, k) + t(3, k)
                + t(4, k) + t(5, k) + t(6, k) + t(7, k)
      s0 == col(0)
      s1 == col(1) + s0 \div 256
      s2 == col(2) + s1 \div 256
      s3 == col(3) + s2 \div 256
      s4 == col(4) + s3 \div 256
      s5 == col(5) + s4 \div 256
      s6 == col(6) + s5 \div 256
      s7 == col(7) + s6 \div 256
  IN FromLimbs(<<s0 % 256, s1 % 256, s2 % 256, s3 % 256,
                 s4 % 256, s5 % 256, s6 % 256, s7 % 256>>)

\* mutant: the seed is shifted, the low bit is not set
RandomInitShifted(seed) == Shl(FromNat(seed), 1)

\* Random(uint64_t seed): state((seed << 1) | 1)
RandomInit(seed) == Shl(FromNat(seed), 1) \cup {0}

\* the three shift-xor steps of operator(): the new state
RandomStep(state) ==
  LET x1 == Xor(state, Shr(state, 12))
      x2 == Xor(x1, Shl(x1, 25))
  IN Xor(x2, Shr(x2, 27))

\* operator(): the value returned with the new state x
RandomValue(x) == MulWord(x)

(***************************************************************************)
(* Outcomes of a call: a returned int, a thrown int, or the process dying  *)
(* of a signal inside the call.                                            *)
(***************************************************************************)
Ret(v) == [kind |-> "ret", val |-> v]
Throw(v) == [kind |-> "throw", val |-> v]
Crash == [kind |-> "crash", val |-> 0]
NoOutcome == [kind |-> "none", val |-> 0]

\* values a build may leave in the result register after undefined behaviour
GarbageInts == {IntMin, -1, 0, 1, IntMax}

\* 3 * v + 1 reduced modulo 2^32 for an int v > MaxNoOverflow, what the
\* wrapping multiply-add instruction leaves (2^32 = 3 * 1431655765 + 1)
WrappedStep(v) == 3 * (v - 1431655765)

(***************************************************************************)
(* static int callback(int v)                                              *)
(***************************************************************************)

\* the throw condition of callback
CallbackThrows(v) == v < 1

\* the outcomes of callback(v); signed overflow in 3 * v + 1 is undefined
\* behaviour: the wrapped value or anything else in the result register
CallbackOutcomes(v) ==
  IF CallbackThrows(v) THEN {Throw(v)}
  ELSE IF v % 2 = 1
       THEN IF v <= MaxNoOverflow
            THEN {Ret(3 * v + 1)}
            ELSE {Ret(w) : w \in {WrappedStep(v)} \cup GarbageInts}
       ELSE {Ret(v \div 2)}

(***************************************************************************)
(* class JITContainer                                                      *)
(***************************************************************************)
\* the generated function: int foo(int(*bar)(int), int v) { return bar(v); }
\* it has no handler of its own, whatever bar throws passes through
FooOutcomes(bar, v) == IF bar = "callback" THEN CallbackOutcomes(v) ELSE {Crash}

\* a call through a null function pointer is undefined behaviour
NullCallOutcomes(v) == {Crash} \cup {Ret(w) : w \in GarbageInts} \cup {Throw(v)}

\* JITContainer::invoke: jitedCode(callback, v)
InvokeOutcomes(jitedCode, bar, v) ==
  IF jitedCode = "foo" THEN FooOutcomes(bar, v) ELSE NullCallOutcomes(v)

\* JIT::dlsym("foo"): the address when the lookup succeeded, nullptr when
\* it failed; an LLVM built with ABI-breaking checks aborts instead when the
\* failed, unchecked Expected is destroyed
DlsymResults(lookupOk) == IF lookupOk THEN {"foo"} ELSE {"null", "abort"}

\* what constructing a JITContainer ends in: the entry point stored in
\* jitedCode, or "abort" (cantFail on createJITDylib / add), or "crash"
\* (selectTarget() returned null because no native target was initialised)
ConstructResults(initialised) ==
  IF ~initialised THEN {"crash"}
  ELSE {"abort"} \cup DlsymResults(TRUE) \cup DlsymResults(FALSE)

\* ~JITContainer -> ~JIT: cantFail(es.endSession())
DestroyResults == {"ok", "abort"}

(***************************************************************************)
(* The test case of one iteration of doTest(errorRate, seed).              *)
(***************************************************************************)
\* (r & 0xFFFF) + 1, a uint64_t
LowPlusOne(r) == FromNat(Limb(r, 0) + 256 * Limb(r, 1) + 1)

\* mutant: <= in place of <
GenArgInclusive(r, errorRate) ==
  ToInt(IF ModWord(r, 1000) <= errorRate THEN FromInt(-1) ELSE LowPlusOne(r))

\* int arg = ((r % 1000) < errorRate) ? -1 : ((r & 0xFFFF) + 1);
\* the conditional has type uint64_t (-1 becomes 2^64 - 1) and is then
\* narrowed to int
GenArg(r, errorRate) ==
  ToInt(IF ModWord(r, 1000) < errorRate THEN FromInt(-1) ELSE LowPlusOne(r))

\* int expected = (arg < 1) ? -1 : ((arg & 1) ? (3 * arg + 1) : (arg / 2));
\* (arg is at most 65536 here, 3 * arg + 1 cannot overflow)
GenExpected(arg) ==
  IF arg < 1 THEN -1 ELSE IF arg % 2 = 1 THEN 3 * arg + 1 ELSE arg \div 2

(***************************************************************************)
(* static bool doTest(const JITContainer&, int input, int expected):       *)
(* what it does with the outcome of the invocation.                        *)
(***************************************************************************)
\* mutant: the sign of the returned value is not tested
UnexpectedValueNoSign(r, expected) == r # expected

\* the test on a returned value r that sends doTest to exit(1)
UnexpectedValue(r, expected) == (r < 0) \/ (r # expected)

\* the test in the catch (int) handler that sends doTest to exit(1)
UnexpectedException(expected) == expected >= 0

\* "pass": return true; "exit1": report and exit(1); "crash": no return
CheckVerdict(outcome, expected) ==
  CASE outcome.kind = "ret" ->
         IF UnexpectedValue(outcome.val, expected) THEN "exit1" ELSE "pass"
    [] outcome.kind = "throw" ->
         IF UnexpectedException(expected) THEN "exit1" ELSE "pass"
    [] OTHER -> "crash"

\* the line written to std::cerr on a mismatch
Report(input, expected, outcome) ==
  [input |-> input, expected |-> expected,
   got |-> IF outcome.kind = "ret" THEN outcome
           ELSE [kind |-> "exception", val |-> 0]]

NoReport == [input |-> 0, expected |-> 0, got |-> NoOutcome]

(***************************************************************************)
(* The state of the process.                                               *)
(***************************************************************************)
\* the main thread; worker threads are named by their index 0, 1, ...
MainId == -1
Workers == 0..(MaxThreads - 1)
Procs == {MainId} \cup Workers

\* a JITContainer: the thread that constructed it and its jitedCode
Unit(t, code) == [ctor |-> t, jitedCode |-> code]
NoUnit == [ctor |-> MainId, jitedCode |-> "none"]
Live(u) == u.jitedCode # "none"

VARIABLES
  status,        \* "running", or how the process ended: "exit0", "exit1",
                 \* "abort" (SIGABRT), "crash" (SIGSEGV), "terminate"
                 \* (std::terminate for an exception that nothing catches)
  argv,          \* main: the arguments after the program name, each a
                 \* sequence of characters
  argIndex,      \* main: the variable index of the loop over argv
  maxCount,      \* buildThreadCounts: its parameter
  out,           \* what main has written to std::cout
  llvmInits,     \* how often the native target has been initialised
  threadCounts,  \* main: the vector threadCounts
  frIdx, tcIdx,  \* runTests: position in failureRates and in threadCounts
  spawned,       \* doTestMultithreaded: threads.size()
  joined,        \* doTestMultithreaded: threads joined so far
  maxDuration,   \* doTestMultithreaded: the atomic maxDuration
  cellResult,    \* the value the last doTestMultithreaded call returned
  report,        \* the last line written to std::cerr
  container,     \* main: JITContainer container
  sanityIdx,     \* sanityTest: the next of its four calls
  limits,        \* the loop limits functionRepeat and repeat of doTest
  pc,            \* per thread: where it is
  caller,        \* per thread: who called the checking doTest
  errorRate,     \* per thread: doTest's parameter errorRate
  seed,          \* per thread: doTest's parameter seed
  random,        \* per thread: Random random (its state)
  r,             \* per thread: auto r = random()
  pass,          \* per thread: loop variable pass
  index,         \* per thread: loop variable index
  result,        \* per thread: unsigned result
  arg,           \* per thread: int arg / input
  expected,      \* per thread: int expected
  outcome,       \* per thread: what jitCode.invoke did
  duration,      \* per thread: what doTest(errorRate, seed) returned
  current,       \* per thread: unsigned current of the lambda
  jitCode,       \* per thread: JITContainer jitCode of doTest
  lastUse,       \* history: the last operation on a unit, who did it and
                 \* who had constructed the unit
  built,         \* history, per thread: units constructed in this pass
  torn,          \* history, per thread: units destroyed in this pass
  invoked,       \* history, per thread: invocations made in this pass
  passesRun,     \* history, per thread: passes completed in this call of
                 \* doTestMultithreaded
  cells,         \* history: the calls of doTestMultithreaded made by
                 \* runTests, each as <<failure rate, thread count>>
  seen           \* history: <<input, outcome>> of the first invocation with
                 \* each input that came back, among the invocations of the
                 \* sanity test and of the first MaxTracked rounds of each
                 \* unit

argVars == <<argv, argIndex, maxCount, out>>
mainVars == <<argVars, llvmInits, threadCounts, frIdx, tcIdx, spawned, joined,
              cellResult, container, sanityIdx, limits>>
callVars == <<caller, arg, expected, outcome>>
passVars == <<errorRate, seed, random, r, pass, index, result, jitCode>>
histVars == <<lastUse, built, torn, invoked, passesRun, cells, seen>>
vars == <<status, maxDuration, report, pc, duration, current,
          mainVars, callVars, passVars, histVars>>

Running == status = "running"

\* nothing written to std::cout by main
NoOutput == [text |-> "", o |-> <<>>]

\* the state of a thread that does not exist (yet)
InitLocals ==
  /\ caller = [t \in Procs |-> "none"]
  /\ errorRate = [t \in Procs |-> 0]
  /\ seed = [t \in Procs |-> 0]
  /\ random = [t \in Procs |-> {}]
  /\ r = [t \in Procs |-> {}]
  /\ pass = [t \in Procs |-> 0]
  /\ index = [t \in Procs |-> 0]
  /\ result = [t \in Procs |-> 0]
  /\ arg = [t \in Procs |-> 0]
  /\ expected = [t \in Procs |-> 0]
  /\ outcome = [t \in Procs |-> NoOutcome]
  /\ duration = [t \in Procs |-> 0]
  /\ current = [t \in Procs |-> 0]
  /\ jitCode = [t \in Procs |-> NoUnit]
  /\ built = [t \in Procs |-> 0]
  /\ torn = [t \in Procs |-> 0]
  /\ invoked = [t \in Procs |-> 0]
  /\ passesRun = [t \in Procs |-> 0]

InitGlobals ==
  /\ status = "running"
  /\ frIdx = 1
  /\ tcIdx = 1
  /\ spawned = 0
  /\ joined = 0
  /\ maxDuration = 0
  /\ cellResult = 0
  /\ report = NoReport
  /\ container = NoUnit
  /\ sanityIdx = 1
  /\ lastUse = [op |-> "none", by |-> MainId, ctor |-> MainId]
  /\ out = NoOutput
  /\ cells = <<>>
  /\ seen = {}

(***************************************************************************)
(* static bool doTest(const JITContainer& jitCode, int input, int expected)*)
(***************************************************************************)
\* mutant: every call is made on main's container
TargetShared(t) == container

\* the unit the call of thread t is made on: sanityTest passes main's
\* container, the pass its own jitCode
Target(t) == IF caller[t] = "sanity" THEN container ELSE jitCode[t]

\* int r = jitCode.invoke(callback, input), inside the try block
\* the invocation thread t is about to make enters the history
Tracked(t) == caller[t] = "sanity" \/ index[t] < MaxTracked

Invoke(t) ==
  /\ Running
  /\ pc[t] = "invoke"
  /\ \E o \in InvokeOutcomes(Target(t).jitedCode, "callback", arg[t]) :
       /\ IF o.kind = "crash"
          THEN /\ status' = "crash"
               /\ UNCHANGED <<pc, outcome>>
          ELSE /\ outcome' = [outcome EXCEPT ![t] = o]
               /\ pc' = [pc EXCEPT ![t] = "check"]
               /\ UNCHANGED status
       /\ seen' = IF /\ Tracked(t)
                     /\ o.kind # "crash"
                     /\ ~(\E p \in seen : p[1] = arg[t])
                  THEN seen \cup {<<arg[t], o>>}
                  ELSE seen
  /\ lastUse' = [op |-> "invoke", by |-> t, ctor |-> Target(t).ctor]
  /\ invoked' = [invoked EXCEPT ![t] = @ + 1]
  /\ UNCHANGED <<maxDuration, report, duration, current, mainVars, caller,
                 arg, expected, passVars, built, torn, passesRun, cells>>

\* the rest of doTest: the test of the returned value, or the handler
\* catch (int); on a mismatch the report and exit(1), otherwise return true
\* to the caller (sanityTest goes on to its next call, the pass adds the
\* returned true to result and increments index)
\* mutant: the handler does not match the exception
CaughtNever(o) == FALSE

\* catch (int): the handler takes what the callback throws, an int
Caught(o) == o.kind = "throw"

Check(t) ==
  /\ Running
  /\ pc[t] = "check"
  /\ IF outcome[t].kind = "throw" /\ ~Caught(outcome[t])
     THEN \* the exception leaves doTest, the pass and the function of the
          \* thread
          /\ status' = "terminate"
          /\ UNCHANGED <<pc, sanityIdx, result, index, outcome, report>>
     ELSE
     IF CheckVerdict(outcome[t], expected[t]) = "pass"
     THEN /\ IF caller[t] = "sanity"
             THEN /\ sanityIdx' = sanityIdx + 1
                  /\ pc' = [pc EXCEPT ![t] = "sanity"]
                  /\ UNCHANGED <<result, index>>
             ELSE /\ result' = [result EXCEPT ![t] = @ + 1]
                  /\ index' = [index EXCEPT ![t] = @ + 1]
                  /\ pc' = [pc EXCEPT ![t] = "inner"]
                  /\ UNCHANGED sanityIdx
          /\ outcome' = [outcome EXCEPT ![t] = NoOutcome]
          /\ UNCHANGED <<status, report>>
     ELSE /\ report' = Report(arg[t], expected[t], outcome[t])
          /\ status' = "exit1"
          /\ UNCHANGED <<pc, sanityIdx, result, index, outcome>>
  /\ UNCHANGED <<maxDuration, duration, current, argVars, llvmInits, threadCounts,
                 frIdx, tcIdx, spawned, joined, cellResult, container, limits,
                 caller, arg, expected, errorRate, seed, random, r, pass,
                 jitCode, histVars>>

(***************************************************************************)
(* main: the default thread counts and the command line.                   *)
(***************************************************************************)
\* the last element of the vector
Back(threads) == threads[Len(threads)]

\* buildThreadCounts: one round of
\* while (threadCounts.back() < maxCount)
\*    threadCounts.push_back(std::min(threadCounts.back() * 2, maxCount));
PushCount ==
  /\ Running
  /\ pc[MainId] = "build"
  /\ LessWord(Back(threadCounts), maxCount)
  /\ threadCounts' = Append(threadCounts,
                            MinWord(Twice(Back(threadCounts)), maxCount))
  /\ UNCHANGED <<status, maxDuration, report, pc, duration, current, argVars,
                 llvmInits, frIdx, tcIdx, spawned, joined, cellResult,
                 container, sanityIdx, limits, callVars, passVars, histVars>>

\* buildThreadCounts: the loop ends, return threadCounts; the parameter is
\* gone and main enters its loop over argv with index = 1
BuildDone ==
  /\ Running
  /\ pc[MainId] = "build"
  /\ ~LessWord(Back(threadCounts), maxCount)
  /\ maxCount' = {}
  /\ pc' = [pc EXCEPT ![MainId] = "args"]
  /\ UNCHANGED <<status, maxDuration, report, duration, current, argv,
                 argIndex, out, llvmInits, threadCounts, frIdx, tcIdx,
                 spawned, joined, cellResult, container, sanityIdx, limits,
                 callVars, passVars, histVars>>

\* the characters of the decimal digits, Digits[d + 1] for the digit d
Digits == <<"0", "1", "2", "3", "4", "5", "6", "7", "8", "9">>
IsDigit(c) == \E d \in 0..9 : Digits[d + 1] = c
DigitValue(c) == CHOOSE d \in 0..9 : Digits[d + 1] = c

\* what std::stoi gives: an int, or one of the exceptions it throws
Value(v) == [what |-> "value", val |-> v]
InvalidArgument == [what |-> "invalid_argument", val |-> 0]
OutOfRange == [what |-> "out_of_range", val |-> 0]

\* the digits of str from position i on, accumulated as a number <= 0 (so
\* that the magnitude of INT_MIN fits); 1 once the number has left the
\* range of int
RECURSIVE StoiDigits(_, _, _)
StoiDigits(str, i, acc) ==
  IF i > Len(str) \/ ~IsDigit(str[i])
  THEN acc
  ELSE LET d == DigitValue(str[i]) IN
       IF acc = 1 \/ acc < (IntMin + d + 9) \div 10
       THEN StoiDigits(str, i + 1, 1)
       ELSE StoiDigits(str, i + 1, acc * 10 - d)

\* std::stoi(str): leading white space is skipped, then an optional sign,
\* then decimal digits up to the first character that is none; no digit at
\* all is std::invalid_argument, a number outside int std::out_of_range
Stoi(str) ==
  LET blank == {i \in 1..Len(str) : \A j \in 1..i : str[j] = " "}
      sign == Cardinality(blank) + 1
      signed == sign <= Len(str) /\ str[sign] \in {"-", "+"}
      negative == sign <= Len(str) /\ str[sign] = "-"
      first == IF signed THEN sign + 1 ELSE sign
      acc == StoiDigits(str, first, 0)
  IN IF first > Len(str) \/ ~IsDigit(str[first]) THEN InvalidArgument
     ELSE IF acc = 1 \/ (~negative /\ acc = IntMin) THEN OutOfRange
     ELSE Value(IF negative THEN acc ELSE -acc)

\* desc.find(' '): the first position of a blank, 0 for npos
Find(desc) ==
  IF \E i \in 1..Len(desc) : desc[i] = " "
  THEN CHOOSE i \in 1..Len(desc) :
         desc[i] = " " /\ \A j \in 1..(i - 1) : desc[j] # " "
  ELSE 0

\* what interpretThreadCounts gives: the vector, or an exception of stoi
\* that nothing catches
Counts(threads) == [thrown |-> FALSE, counts |-> threads]
Thrown == [thrown |-> TRUE, counts |-> <<>>]

\* the lambda add: unsigned c = std::stoi(desc); if (c) push_back(c)
Add(threads, desc) ==
  LET c == Stoi(desc) IN
  IF c.what # "value" THEN Thrown
  ELSE IF ToUnsigned(c.val) # {} THEN Counts(Append(threads, ToUnsigned(c.val)))
  ELSE Counts(threads)

\* interpretThreadCounts from a state of its loop on: split at the first
\* blank, add the part before it, go on with the part after it; add the
\* rest
RECURSIVE InterpretFrom(_, _)
InterpretFrom(threads, desc) ==
  LET split == Find(desc) IN
  IF split # 0
  THEN LET added == Add(threads, SubSeq(desc, 1, split - 1)) IN
       IF added.thrown THEN Thrown
       ELSE InterpretFrom(added.counts, SubSeq(desc, split + 1, Len(desc)))
  ELSE Add(threads, desc)

InterpretThreadCounts(desc) == InterpretFrom(<<>>, desc)

\* the characters of "--threads"
ThreadsOption == <<"-", "-", "t", "h", "r", "e", "a", "d", "s">>

\* argc - 1: argv holds the arguments after the program name, so the
\* source's argv[index] is argv[index] here and index < argc is
\* index <= ArgCount
ArgCount == Len(argv)

\* index + 1 < argc
HasValue(i) == i + 1 <= ArgCount

\* (o == "--threads") && (index + 1 < argc):
\* threadCounts = interpretThreadCounts(argv[++index]); an exception of
\* stoi leaves main uncaught: std::terminate
ParseThreads ==
  /\ Running
  /\ pc[MainId] = "args"
  /\ argIndex <= ArgCount
  /\ argv[argIndex] = ThreadsOption /\ HasValue(argIndex)
  /\ LET interpreted == InterpretThreadCounts(argv[argIndex + 1])
     IN IF interpreted.thrown
        THEN /\ status' = "terminate"
             /\ UNCHANGED <<threadCounts, argIndex>>
        ELSE /\ threadCounts' = interpreted.counts
             /\ argIndex' = argIndex + 2
             /\ UNCHANGED status
  /\ UNCHANGED <<maxDuration, report, pc, duration, current, argv, maxCount,
                 out, llvmInits, frIdx, tcIdx, spawned, joined, cellResult,
                 container, sanityIdx, limits, callVars, passVars, histVars>>

\* else: std::cout << "unknown option " << o << std::endl; return 1;
UnknownOption ==
  /\ Running
  /\ pc[MainId] = "args"
  /\ argIndex <= ArgCount
  /\ ~(argv[argIndex] = ThreadsOption /\ HasValue(argIndex))
  /\ out' = [text |-> "unknown option ", o |-> argv[argIndex]]
  /\ status' = "exit1"
  /\ pc' = [pc EXCEPT ![MainId] = "returned"]
  /\ UNCHANGED <<maxDuration, report, duration, current, argv, argIndex,
                 maxCount, llvmInits, threadCounts, frIdx, tcIdx, spawned,
                 joined, cellResult, container, sanityIdx, limits, callVars,
                 passVars, histVars>>

\* index < argc fails: the loop over argv ends, on to "Init llvm"
ArgsDone ==
  /\ Running
  /\ pc[MainId] = "args"
  /\ argIndex > ArgCount
  /\ pc' = [pc EXCEPT ![MainId] = "init"]
  /\ UNCHANGED <<status, maxDuration, report, duration, current, mainVars,
                 callVars, passVars, histVars>>

\* no arguments, and main past its loop over them
NoArguments == argv = <<>> /\ argIndex = 1 /\ maxCount = {}

(***************************************************************************)
(* main, from "Init llvm" to the call of runTests.                         *)
(***************************************************************************)
\* mutant: main goes on without initialising the native target
InitLLVMSkipped ==
  /\ Running
  /\ pc[MainId] = "init"
  /\ pc' = [pc EXCEPT ![MainId] = "container"]
  /\ UNCHANGED <<status, maxDuration, report, duration, current, mainVars,
                 callVars, passVars, histVars>>

\* llvm::InitializeNativeTarget(); llvm::InitializeNativeTargetAsmPrinter();
InitLLVM ==
  /\ Running
  /\ pc[MainId] = "init"
  /\ llvmInits' = llvmInits + 1
  /\ pc' = [pc EXCEPT ![MainId] = "container"]
  /\ UNCHANGED <<status, maxDuration, report, duration, current, argVars,
                 threadCounts, frIdx, tcIdx, spawned, joined, cellResult,
                 container, sanityIdx, limits, callVars, passVars, histVars>>

\* JITContainer container;
ConstructContainer ==
  /\ Running
  /\ pc[MainId] = "container"
  /\ \E made \in ConstructResults(llvmInits > 0) :
       IF made \in {"abort", "crash"}
       THEN /\ status' = made
            /\ UNCHANGED <<pc, container, lastUse>>
       ELSE /\ container' = Unit(MainId, made)
            /\ lastUse' = [op |-> "construct", by |-> MainId, ctor |-> MainId]
            /\ pc' = [pc EXCEPT ![MainId] = "sanity"]
            /\ UNCHANGED status
  /\ UNCHANGED <<maxDuration, report, duration, current, argVars, llvmInits,
                 threadCounts, frIdx, tcIdx, spawned, joined, cellResult,
                 sanityIdx, limits, callVars, passVars, built, torn, invoked,
                 passesRun, cells, seen>>

\* sanityTest(container): its next doTest call, or its return to main,
\* which goes on to runTests(threadCounts)
SanityTest ==
  /\ Running
  /\ pc[MainId] = "sanity"
  /\ IF sanityIdx <= Len(SanityCases)
     THEN /\ arg' = [arg EXCEPT ![MainId] = SanityCases[sanityIdx][1]]
          /\ expected' = [expected EXCEPT ![MainId] = SanityCases[sanityIdx][2]]
          /\ caller' = [caller EXCEPT ![MainId] = "sanity"]
          /\ pc' = [pc EXCEPT ![MainId] = "invoke"]
     ELSE /\ caller' = [caller EXCEPT ![MainId] = "none"]
          /\ pc' = [pc EXCEPT ![MainId] = "cell"]
          /\ UNCHANGED <<arg, expected>>
  /\ UNCHANGED <<status, maxDuration, report, duration, current, mainVars,
                 outcome, passVars, histVars>>

\* doTest(container, input, expected) called with arguments of the
\* caller's choice instead of sanityTest's first pair
ProbeInputs ==
  (-MaxSmall..MaxSmall)
  \cup {IntMin, IntMin + 1, -65536, 65535, 65536, MaxNoOverflow - 1,
        MaxNoOverflow, MaxNoOverflow + 1, MaxNoOverflow + 2, 1431655765,
        1431655767, IntMax - 1, IntMax}
ProbeExpected(input) ==
  {-1, 0, 1, IntMin, IntMax, input}
  \cup (IF input >= 1 /\ input <= MaxNoOverflow
        THEN {GenExpected(input)} ELSE {})
  \cup (IF input > MaxNoOverflow THEN {WrappedStep(input)} ELSE {})

ProbeCall ==
  /\ Running
  /\ pc[MainId] = "sanity"
  /\ sanityIdx = 1
  /\ \E input \in ProbeInputs : \E e \in ProbeExpected(input) :
       /\ arg' = [arg EXCEPT ![MainId] = input]
       /\ expected' = [expected EXCEPT ![MainId] = e]
  /\ caller' = [caller EXCEPT ![MainId] = "sanity"]
  /\ pc' = [pc EXCEPT ![MainId] = "invoke"]
  /\ UNCHANGED <<status, maxDuration, report, duration, current, mainVars,
                 outcome, passVars, histVars>>

(***************************************************************************)
(* static unsigned doTest(unsigned errorRate, unsigned seed): one pass.    *)
(***************************************************************************)
\* mutant: one generator shared by all threads
SharedGenerator(t) == MainId

\* the Random object thread t draws from: the local random of its own pass
Generator(t) == t

\* Random random(seed); start = now(); result = 0; pass = 0
PassStart(t) ==
  /\ Running
  /\ pc[t] = "pass_start"
  /\ random' = [random EXCEPT ![Generator(t)] = RandomInit(seed[t])]
  /\ result' = [result EXCEPT ![t] = 0]
  /\ pass' = [pass EXCEPT ![t] = 0]
  /\ built' = [built EXCEPT ![t] = 0]
  /\ torn' = [torn EXCEPT ![t] = 0]
  /\ invoked' = [invoked EXCEPT ![t] = 0]
  /\ pc' = [pc EXCEPT ![t] = "outer"]
  /\ UNCHANGED <<status, maxDuration, report, duration, current, mainVars,
                 callVars, errorRate, seed, r, index, jitCode, lastUse,
                 passesRun, cells, seen>>

\* pass != functionRepeat: JITContainer jitCode; index = 0
BeginUnit(t) ==
  /\ Running
  /\ pc[t] = "outer"
  /\ pass[t] # limits.functionRepeat
  /\ \E made \in ConstructResults(llvmInits > 0) :
       IF made \in {"abort", "crash"}
       THEN /\ status' = made
            /\ UNCHANGED <<pc, jitCode, index, built, lastUse>>
       ELSE /\ jitCode' = [jitCode EXCEPT ![t] = Unit(t, made)]
            /\ lastUse' = [op |-> "construct", by |-> t, ctor |-> t]
            /\ built' = [built EXCEPT ![t] = @ + 1]
            /\ index' = [index EXCEPT ![t] = 0]
            /\ pc' = [pc EXCEPT ![t] = "inner"]
            /\ UNCHANGED status
  /\ UNCHANGED <<maxDuration, report, duration, current, mainVars, callVars,
                 errorRate, seed, random, r, pass, result, torn, invoked,
                 passesRun, cells, seen>>

\* index != repeat, with drawn the value of random(): auto r = drawn;
\* int arg = ...; int expected = ...; and the call
\* doTest(jitCode, arg, expected)
Generate(t, drawn) ==
  /\ Running
  /\ pc[t] = "inner"
  /\ index[t] # limits.repeat
  /\ r' = [r EXCEPT ![t] = drawn]
  /\ arg' = [arg EXCEPT ![t] = GenArg(drawn, errorRate[t])]
  /\ expected' = [expected EXCEPT ![t] = GenExpected(arg'[t])]
  /\ caller' = [caller EXCEPT ![t] = "pass"]
  /\ pc' = [pc EXCEPT ![t] = "invoke"]
  /\ UNCHANGED <<status, maxDuration, report, duration, current, mainVars,
                 outcome, errorRate, seed, pass, index, result, jitCode,
                 lastUse, built, torn, invoked, passesRun, cells, seen>>

\* the loop body with the value the generator of the pass returns
Draw(t) ==
  /\ random' = [random EXCEPT ![Generator(t)] = RandomStep(@)]
  /\ Generate(t, RandomValue(random'[Generator(t)]))

\* 64-bit values at the edges of the two tests on r: r % 1000 at and next
\* to each failure rate, r & 0xFFFF at 0 and 0xFFFF, the top bits set
ProbeWords ==
  {FromNat(n) : n \in {0, 1, 9, 10, 11, 99, 100, 101, 999, 1000, 1001,
                       65535, 65536, 65537, 999999, 1000000}}
  \cup {Bits, {63}, {32}, Bits \ {0}, Bits \ (0..15)}

\* the loop body with the generator returning any of ProbeWords, for the
\* first MaxProbes rounds of a pass
ProbeDraw(t) ==
  /\ index[t] < MaxProbes
  /\ \E drawn \in ProbeWords : Generate(t, drawn)
  /\ UNCHANGED random

\* index == repeat: the loop body ends, jitCode is destroyed, ++pass
EndUnit(t) ==
  /\ Running
  /\ pc[t] = "inner"
  /\ index[t] = limits.repeat
  /\ \E d \in DestroyResults :
       IF d = "abort"
       THEN /\ status' = "abort"
            /\ UNCHANGED <<pc, jitCode, pass, torn>>
       ELSE /\ jitCode' = [jitCode EXCEPT ![t] = NoUnit]
            /\ torn' = [torn EXCEPT ![t] = @ + 1]
            /\ pass' = [pass EXCEPT ![t] = @ + 1]
            /\ pc' = [pc EXCEPT ![t] = "outer"]
            /\ UNCHANGED status
  /\ lastUse' = [op |-> "destroy", by |-> t, ctor |-> jitCode[t].ctor]
  /\ UNCHANGED <<maxDuration, report, duration, current, mainVars, callVars,
                 errorRate, seed, random, r, index, result, built, invoked,
                 passesRun, cells, seen>>

\* pass == functionRepeat: "invalid result!" when result is 0; stop = now();
\* return the milliseconds between start and stop.  The inline pass returns
\* into doTestMultithreaded, which returns the value to runTests; a
\* worker's lambda goes on with maxDuration.load()
PassEnd(t) ==
  /\ Running
  /\ pc[t] = "outer"
  /\ pass[t] = limits.functionRepeat
  /\ report' = IF result[t] = 0
               THEN [input |-> 0, expected |-> 0,
                     got |-> [kind |-> "invalid result!", val |-> 0]]
               ELSE report
  /\ \E d \in 0..MaxDuration : duration' = [duration EXCEPT ![t] = d]
  /\ passesRun' = [passesRun EXCEPT ![t] = @ + 1]
  /\ IF t = MainId
     THEN /\ cellResult' = duration'[t]
          /\ pc' = [pc EXCEPT ![t] = "cell_done"]
     ELSE /\ pc' = [pc EXCEPT ![t] = "load"]
          /\ UNCHANGED cellResult
  /\ UNCHANGED <<status, maxDuration, current, argVars, llvmInits, threadCounts,
                 frIdx, tcIdx, spawned, joined, container, sanityIdx, limits,
                 callVars, passVars, lastUse, built, torn, invoked, cells, seen>>

(***************************************************************************)
(* The lambda of a worker thread after its pass.                           *)
(***************************************************************************)
\* unsigned current = maxDuration.load();
Load(t) ==
  /\ Running
  /\ pc[t] = "load"
  /\ current' = [current EXCEPT ![t] = maxDuration]
  /\ pc' = [pc EXCEPT ![t] = "cas"]
  /\ UNCHANGED <<status, maxDuration, report, duration, mainVars, callVars,
                 passVars, histVars>>

\* mutant: a plain store in place of the compare-exchange
StoreResults(value, exp, desired) ==
  {[ok |-> TRUE, value |-> desired, found |-> exp]}

\* compare_exchange_weak(expected, desired) on the atomic value: TRUE with
\* the value replaced, or FALSE with the value found; it may fail although
\* the value found is the expected one
CasResults(value, exp, desired) ==
  IF value = exp
  THEN {[ok |-> TRUE, value |-> desired, found |-> exp],
        [ok |-> FALSE, value |-> value, found |-> value]}
  ELSE {[ok |-> FALSE, value |-> value, found |-> value]}

\* mutant: the loop is never entered
LargerNever(d, c) == FALSE

\* the loop condition: duration > current
Larger(d, c) == d > c

\* mutant: the exchange is tried whenever duration and current differ
CasUnordered(t) ==
  /\ Running
  /\ pc[t] = "cas"
  /\ IF duration[t] # current[t]
     THEN \E c \in CasResults(maxDuration, current[t], duration[t]) :
            /\ maxDuration' = c.value
            /\ current' = [current EXCEPT ![t] = c.found]
            /\ pc' = [pc EXCEPT ![t] = IF c.ok THEN "finished" ELSE "cas"]
     ELSE /\ pc' = [pc EXCEPT ![t] = "finished"]
          /\ UNCHANGED <<maxDuration, current>>
  /\ UNCHANGED <<status, report, duration, mainVars, callVars, passVars,
                 histVars>>

\* one evaluation of the loop condition
\* (duration > current) && !maxDuration.compare_exchange_weak(current, duration)
Cas(t) ==
  /\ Running
  /\ pc[t] = "cas"
  /\ IF Larger(duration[t], current[t])
     THEN \E c \in CasResults(maxDuration, current[t], duration[t]) :
            /\ maxDuration' = c.value
            /\ current' = [current EXCEPT ![t] = c.found]
            /\ pc' = [pc EXCEPT ![t] = IF c.ok THEN "finished" ELSE "cas"]
     ELSE /\ pc' = [pc EXCEPT ![t] = "finished"]
          /\ UNCHANGED <<maxDuration, current>>
  /\ UNCHANGED <<status, report, duration, mainVars, callVars, passVars,
                 histVars>>

(***************************************************************************)
(* runTests and doTestMultithreaded, on the main thread.                   *)
(***************************************************************************)
InSweep == frIdx <= Len(FailureRates)

\* mutant: the loop over the thread counts stops one short
InRowShort == tcIdx < Len(threadCounts)

InRow == tcIdx <= Len(threadCounts)

\* runTests: the row of a failure rate is complete, on to the next rate
NextRate ==
  /\ Running
  /\ pc[MainId] = "cell"
  /\ InSweep /\ ~InRow
  /\ frIdx' = frIdx + 1
  /\ tcIdx' = 1
  /\ UNCHANGED <<status, maxDuration, report, pc, duration, current,
                 argVars, llvmInits, threadCounts, spawned, joined, cellResult,
                 container, sanityIdx, limits, callVars, passVars, histVars>>

\* doTestMultithreaded(fr, tc) with tc <= 1: return doTest(errorRate, 0);
CallInline ==
  /\ Running
  /\ pc[MainId] = "cell"
  /\ InSweep /\ InRow
  /\ ~LessWord(One, threadCounts[tcIdx])
  /\ errorRate' = [errorRate EXCEPT ![MainId] = FailureRates[frIdx]]
  /\ seed' = [seed EXCEPT ![MainId] = 0]
  /\ pc' = [pc EXCEPT ![MainId] = "pass_start"]
  /\ cells' = Append(cells, <<FailureRates[frIdx], threadCounts[tcIdx]>>)
  /\ UNCHANGED <<status, maxDuration, report, duration, current, mainVars,
                 callVars, random, r, pass, index, result, jitCode, lastUse,
                 built, torn, invoked, passesRun, seen>>

\* doTestMultithreaded(fr, tc) with tc > 1: the vector threads is empty,
\* std::atomic<unsigned> maxDuration{0}
CallThreaded ==
  /\ Running
  /\ pc[MainId] = "cell"
  /\ InSweep /\ InRow
  /\ LessWord(One, threadCounts[tcIdx])
  /\ maxDuration' = 0
  /\ pc' = [pc EXCEPT ![MainId] = "spawn"]
  /\ cells' = Append(cells, <<FailureRates[frIdx], threadCounts[tcIdx]>>)
  /\ UNCHANGED <<status, report, duration, current, mainVars, callVars,
                 passVars, lastUse, built, torn, invoked, passesRun, seen>>

\* index != threadCount: threads.push_back(std::thread(...)); the new
\* thread starts doTest(errorRate, index)
Spawn ==
  /\ Running
  /\ pc[MainId] = "spawn"
  /\ FromNat(spawned) # threadCounts[tcIdx]
  /\ errorRate' = [errorRate EXCEPT ![spawned] = FailureRates[frIdx]]
  /\ seed' = [seed EXCEPT ![spawned] = spawned]
  /\ pc' = [pc EXCEPT ![spawned] = "pass_start"]
  /\ spawned' = spawned + 1
  /\ UNCHANGED <<status, maxDuration, report, duration, current, argVars, llvmInits,
                 threadCounts, frIdx, tcIdx, joined, cellResult, container,
                 sanityIdx, limits, callVars, random, r, pass, index, result,
                 jitCode, histVars>>

\* index == threadCount: the spawn loop ends
SpawnDone ==
  /\ Running
  /\ pc[MainId] = "spawn"
  /\ FromNat(spawned) = threadCounts[tcIdx]
  /\ pc' = [pc EXCEPT ![MainId] = "join"]
  /\ UNCHANGED <<status, maxDuration, report, duration, current, mainVars,
                 callVars, passVars, histVars>>

\* mutant: join does not wait for the thread
JoinableAlways(t) == TRUE

\* t.join() returns once the lambda of thread t has returned
Joinable(t) == pc[t] = "finished"

\* t.join() for the next thread of the vector
Join ==
  /\ Running
  /\ pc[MainId] = "join"
  /\ joined # spawned
  /\ Joinable(joined)
  /\ pc' = [pc EXCEPT ![joined] = "joined"]
  /\ joined' = joined + 1
  /\ UNCHANGED <<status, maxDuration, report, duration, current, argVars, llvmInits,
                 threadCounts, frIdx, tcIdx, spawned, cellResult, container,
                 sanityIdx, limits, callVars, passVars, histVars>>

\* return maxDuration.load();
ReturnMax ==
  /\ Running
  /\ pc[MainId] = "join"
  /\ joined = spawned
  /\ cellResult' = maxDuration
  /\ pc' = [pc EXCEPT ![MainId] = "cell_done"]
  /\ UNCHANGED <<status, maxDuration, report, duration, current, argVars, llvmInits,
                 threadCounts, frIdx, tcIdx, spawned, joined, container,
                 sanityIdx, limits, callVars, passVars, histVars>>

\* runTests: std::cout << " " << (the returned value); the next thread
\* count.  The threads, their locals and the returned value are gone.
CellDone ==
  /\ Running
  /\ pc[MainId] = "cell_done"
  /\ tcIdx' = tcIdx + 1
  /\ pc' = [t \in Procs |-> IF t = MainId THEN "cell" ELSE "unborn"]
  /\ cellResult' = 0
  /\ maxDuration' = 0
  /\ spawned' = 0
  /\ joined' = 0
  /\ caller' = [t \in Procs |-> "none"]
  /\ errorRate' = [t \in Procs |-> 0]
  /\ seed' = [t \in Procs |-> 0]
  /\ random' = [t \in Procs |-> {}]
  /\ r' = [t \in Procs |-> {}]
  /\ pass' = [t \in Procs |-> 0]
  /\ index' = [t \in Procs |-> 0]
  /\ result' = [t \in Procs |-> 0]
  /\ arg' = [t \in Procs |-> 0]
  /\ expected' = [t \in Procs |-> 0]
  /\ outcome' = [t \in Procs |-> NoOutcome]
  /\ duration' = [t \in Procs |-> 0]
  /\ current' = [t \in Procs |-> 0]
  /\ built' = [t \in Procs |-> 0]
  /\ torn' = [t \in Procs |-> 0]
  /\ invoked' = [t \in Procs |-> 0]
  /\ passesRun' = [t \in Procs |-> 0]
  /\ UNCHANGED <<status, report, argVars, llvmInits, threadCounts, frIdx, container,
                 sanityIdx, limits, jitCode, lastUse, cells, seen>>

\* runTests returns, main returns: container is destroyed, exit status 0
MainReturn ==
  /\ Running
  /\ pc[MainId] = "cell"
  /\ ~InSweep
  /\ \E d \in DestroyResults :
       IF d = "abort"
       THEN /\ status' = "abort"
            /\ UNCHANGED <<pc, container>>
       ELSE /\ container' = NoUnit
            /\ pc' = [pc EXCEPT ![MainId] = "returned"]
            /\ status' = "exit0"
  /\ lastUse' = [op |-> "destroy", by |-> MainId, ctor |-> container.ctor]
  /\ UNCHANGED <<maxDuration, report, duration, current, argVars, llvmInits,
                 threadCounts, frIdx, tcIdx, spawned, joined, cellResult,
                 sanityIdx, limits, callVars, passVars, built, torn, invoked,
                 passesRun, cells, seen>>

(***************************************************************************)
(* Spec: the whole program, from the first statement of main on, with the  *)
(* shortened pass, for a hardware concurrency and argument vectors that    *)
(* give thread counts up to MaxThreads.                                    *)
(***************************************************************************)
\* the decimal numeral of a one-digit thread count
Numeral(c) == <<Digits[c + 1]>>

\* a value of --threads: the tokens separated by one blank each
RECURSIVE Joined(_)
Joined(tokens) ==
  IF Len(tokens) = 1 THEN tokens[1]
  ELSE tokens[1] \o <<" ">> \o Joined(Tail(tokens))

\* a numeral above INT_MAX that fits an unsigned
BeyondInt == <<"3", "0", "0", "0", "0", "0", "0", "0", "0", "0">>

\* argument vectors of the sweep: none; --threads with a list that holds a
\* zero, with zero alone, with a list out of order; an unknown option,
\* alone and after a --threads pair; --threads as the last argument; an
\* unknown option after a --threads pair with a value above INT_MAX
SweepArgVectors ==
  { <<>>,
    <<ThreadsOption, Joined(<<Numeral(0), Numeral(MaxThreads)>>)>>,
    <<ThreadsOption, Numeral(0)>>,
    <<ThreadsOption, Joined(<<Numeral(MaxThreads), Numeral(1)>>)>>,
    <<<<"x">>>>,
    <<ThreadsOption>>,
    <<ThreadsOption, Numeral(MaxThreads), <<"x">>>>,
    <<ThreadsOption, Numeral(1), ThreadsOption>>,
    <<ThreadsOption, BeyondInt, <<"x">>>> }

\* std::thread::hardware_concurrency() of the machines of the sweep
SweepHardware == {FromNat(h) : h \in 0..(2 * MaxThreads + 1)}

Init ==
  /\ InitGlobals
  /\ InitLocals
  /\ argv \in SweepArgVectors
  /\ argIndex = 1
  /\ maxCount \in {Half(h) : h \in SweepHardware}
  /\ llvmInits = 0
  /\ threadCounts = <<One>>
  /\ limits = [functionRepeat |-> MaxPasses, repeat |-> MaxCalls]
  /\ pc = [t \in Procs |-> IF t = MainId THEN "build" ELSE "unborn"]

Next ==
  \/ PushCount
  \/ BuildDone
  \/ ParseThreads
  \/ UnknownOption
  \/ ArgsDone
  \/ InitLLVM
  \/ ConstructContainer
  \/ SanityTest
  \/ NextRate
  \/ CallInline
  \/ CallThreaded
  \/ Spawn
  \/ SpawnDone
  \/ Join
  \/ ReturnMax
  \/ CellDone
  \/ MainReturn
  \/ \E t \in Procs :
       \/ PassStart(t)
       \/ BeginUnit(t)
       \/ Draw(t)
       \/ Invoke(t)
       \/ Check(t)
       \/ EndUnit(t)
       \/ PassEnd(t)
       \/ Load(t)
       \/ Cas(t)

Spec == Init /\ [][Next]_vars

(***************************************************************************)
(* SpecPass: one pass doTest(errorRate, 0) of full length on the main      *)
(* thread, as doTestMultithreaded(errorRate, 1) runs it in the last row of *)
(* the sweep (the failure rate under which both paths are taken).          *)
(***************************************************************************)
InitPass ==
  /\ InitGlobals
  /\ InitLocals
  /\ NoArguments
  /\ llvmInits = 1
  /\ threadCounts = <<One>>
  /\ limits = [functionRepeat |-> FunctionRepeat, repeat |-> Repeat]
  /\ pc = [t \in Procs |-> IF t = MainId THEN "cell" ELSE "unborn"]

\* the sanity test is over, runTests is at the cell of one failure rate
StartPass ==
  /\ Running
  /\ pc[MainId] = "cell"
  /\ container = NoUnit
  /\ container' = Unit(MainId, "foo")
  /\ sanityIdx' = Len(SanityCases) + 1
  /\ frIdx' = Len(FailureRates)
  /\ UNCHANGED <<status, maxDuration, report, pc, duration, current,
                 argVars, llvmInits, threadCounts, tcIdx, spawned, joined, cellResult,
                 limits, callVars, passVars, histVars>>

NextPass ==
  \/ StartPass
  \/ (container # NoUnit /\ CallInline)
  \/ PassStart(MainId)
  \/ BeginUnit(MainId)
  \/ Draw(MainId)
  \/ Invoke(MainId)
  \/ Check(MainId)
  \/ EndUnit(MainId)
  \/ PassEnd(MainId)

SpecPass == InitPass /\ [][NextPass]_vars

(***************************************************************************)
(* SpecGen: a pass doTest(errorRate, seed) of one unit and MaxDraws rounds *)
(* for each failure rate and each seed up to MaxSeed; in its first rounds  *)
(* the generator may also return any of ProbeWords.                        *)
(***************************************************************************)
InitGen ==
  /\ InitGlobals
  /\ InitLocals
  /\ NoArguments
  /\ llvmInits = 1
  /\ threadCounts = <<One>>
  /\ limits = [functionRepeat |-> 1, repeat |-> MaxDraws]
  /\ pc = [t \in Procs |-> IF t = MainId THEN "cell" ELSE "unborn"]

\* a call doTest(errorRate, seed)
CallDoTest ==
  /\ Running
  /\ pc[MainId] = "cell"
  /\ \E i \in 1..Len(FailureRates) :
       errorRate' = [errorRate EXCEPT ![MainId] = FailureRates[i]]
  /\ \E sd \in 0..MaxSeed : seed' = [seed EXCEPT ![MainId] = sd]
  /\ pc' = [pc EXCEPT ![MainId] = "pass_start"]
  /\ UNCHANGED <<status, maxDuration, report, duration, current, mainVars,
                 callVars, random, r, pass, index, result, jitCode, histVars>>

NextGen ==
  \/ CallDoTest
  \/ PassStart(MainId)
  \/ BeginUnit(MainId)
  \/ Draw(MainId)
  \/ ProbeDraw(MainId)
  \/ Invoke(MainId)
  \/ Check(MainId)
  \/ EndUnit(MainId)
  \/ PassEnd(MainId)

SpecGen == InitGen /\ [][NextGen]_vars

(***************************************************************************)
(* SpecCheck: the checking doTest on one unit with arguments drawn from    *)
(* ProbeInputs and ProbeExpected, from the construction of the unit on.    *)
(***************************************************************************)
InitCheck ==
  /\ InitGlobals
  /\ InitLocals
  /\ NoArguments
  /\ llvmInits = 1
  /\ threadCounts = <<>>
  /\ limits = [functionRepeat |-> FunctionRepeat, repeat |-> Repeat]
  /\ pc = [t \in Procs |-> IF t = MainId THEN "container" ELSE "unborn"]

NextCheck ==
  \/ ConstructContainer
  \/ ProbeCall
  \/ Invoke(MainId)
  \/ Check(MainId)

SpecCheck == InitCheck /\ [][NextCheck]_vars

(***************************************************************************)
(* SpecRow: the call doTestMultithreaded(100, 2) of the last row           *)
(* of the sweep, with passes of one unit and MaxRowDraws rounds, enough    *)
(* for the generator of seed 0 to draw a failure.  Each thread is          *)
(* scheduled again and again while it can take a step of its final update  *)
(* of the maximum; a compare-exchange that fails although the value is the *)
(* expected one leaves the state as it is, so weak fairness of the steps   *)
(* that change the state says that it does not fail so forever.            *)
(***************************************************************************)
InitRow ==
  /\ InitGlobals
  /\ InitLocals
  /\ NoArguments
  /\ llvmInits = 1
  /\ threadCounts = <<Twice(One)>>
  /\ limits = [functionRepeat |-> 1, repeat |-> MaxRowDraws]
  /\ pc = [t \in Procs |-> IF t = MainId THEN "cell" ELSE "unborn"]

NextRow ==
  \/ StartPass
  \/ (container # NoUnit /\ CallThreaded)
  \/ Spawn
  \/ SpawnDone
  \/ Join
  \/ ReturnMax
  \/ CellDone
  \/ \E t \in Workers :
       \/ PassStart(t)
       \/ BeginUnit(t)
       \/ Draw(t)
       \/ Invoke(t)
       \/ Check(t)
       \/ EndUnit(t)
       \/ PassEnd(t)
       \/ Load(t)
       \/ Cas(t)

\* the final update of thread t: the load and the loop
Update(t) == Load(t) \/ Cas(t)

SpecRow ==
  /\ InitRow
  /\ [][NextRow]_vars
  /\ \A t \in Workers : WF_vars(Update(t))

(***************************************************************************)
(* SpecArgs: main up to "Init llvm", for values of --threads made of one   *)
(* or two of ProbeTokens.                                                  *)
(***************************************************************************)
\* tokens of a --threads value: numerals with and without sign, with a
\* leading zero, at and beyond the ends of int, and tokens that are no
\* numerals
ProbeTokens ==
  { Numeral(0), Numeral(1), Numeral(2), <<"1", "0">>, <<"0", "0", "7">>,
    <<"-", "1">>, <<"-", "0">>, <<"+", "3">>,
    <<"2", "1", "4", "7", "4", "8", "3", "6", "4", "7">>,
    <<"2", "1", "4", "7", "4", "8", "3", "6", "4", "8">>,
    <<"-", "2", "1", "4", "7", "4", "8", "3", "6", "4", "7">>,
    BeyondInt, <<"2", "x">>, <<"x">>, <<>> }

ProbeValues ==
  ProbeTokens \cup {Joined(<<a, b>>) : a, b \in ProbeTokens}

ProbeArgVectors ==
  {<<ThreadsOption, v>> : v \in ProbeValues}
  \cup {<<ThreadsOption, v, ThreadsOption, w>> : v, w \in ProbeTokens}
  \cup {<<ThreadsOption, v, <<"x">>>> : v \in ProbeTokens}
  \cup {<<>>, <<ThreadsOption>>, <<<<"x">>, ThreadsOption, Numeral(1)>>}

InitArgs ==
  /\ InitGlobals
  /\ InitLocals
  /\ argv \in ProbeArgVectors
  /\ argIndex = 1
  /\ maxCount \in {Half(h) : h \in SweepHardware}
  /\ llvmInits = 0
  /\ threadCounts = <<One>>
  /\ limits = [functionRepeat |-> FunctionRepeat, repeat |-> Repeat]
  /\ pc = [t \in Procs |-> IF t = MainId THEN "build" ELSE "unborn"]

NextArgs ==
  \/ PushCount
  \/ BuildDone
  \/ ParseThreads
  \/ UnknownOption
  \/ ArgsDone

SpecArgs == InitArgs /\ [][NextArgs]_vars

(***************************************************************************)
(* SpecBuild: buildThreadCounts(std::thread::hardware_concurrency() / 2)   *)
(* for hardware concurrencies over the whole range of unsigned.  The loop  *)
(* runs on the main thread alone, so a round that can be taken is taken.   *)
(***************************************************************************)
\* values of std::thread::hardware_concurrency(): the small ones, powers of
\* two and their neighbours, the largest unsigned values
ProbeHardware ==
  {FromNat(h) : h \in 0..9}
  \cup {{16}, {0, 16}, {30}, {0, 30}, {31}, {0, 31}, {30, 31}, 1..31, 0..31}

InitBuild ==
  /\ InitGlobals
  /\ InitLocals
  /\ argv = <<>>
  /\ argIndex = 1
  /\ maxCount \in {Half(h) : h \in ProbeHardware}
  /\ llvmInits = 0
  /\ threadCounts = <<One>>
  /\ limits = [functionRepeat |-> FunctionRepeat, repeat |-> Repeat]
  /\ pc = [t \in Procs |-> IF t = MainId THEN "build" ELSE "unborn"]

NextBuild ==
  \/ PushCount
  \/ BuildDone

SpecBuild == InitBuild /\ [][NextBuild]_vars /\ WF_vars(NextBuild)

(***************************************************************************)
(* The claims.                                                             *)
(***************************************************************************)
\* w is the value the claim gives for input v >= 1: 3v+1 for odd v, v/2
\* for even v (3v+1 is no int at all when v > MaxNoOverflow)
IsStepOf(w, v) ==
  IF v % 2 = 1 THEN v <= MaxNoOverflow /\ w = 3 * v + 1 ELSE w = v \div 2

\* the call invoke(callback, arg) of the main thread has come back to doTest
Invoked == pc[MainId] = "check"

\* the call invoke(callback, arg) of the main thread has ended the process
\* with a signal
InvokeCrashed == pc[MainId] = "invoke" /\ status = "crash"

\* C1: for every int v >= 1, invoke(callback, v) returns 3v+1 for odd v and
\* v/2 for even v, and never raises an exception.
C1_Original ==
  /\ (Invoked /\ arg[MainId] >= 1) =>
       /\ outcome[MainId].kind = "ret"
       /\ IsStepOf(outcome[MainId].val, arg[MainId])
  /\ ~(InvokeCrashed /\ arg[MainId] >= 1)

\* C2: for every int v < 1, invoke(callback, v) raises an exception that
\* carries v and arrives in the caller of invoke; no value is returned.
C2_Original ==
  /\ (Invoked /\ arg[MainId] < 1) => outcome[MainId] = Throw(arg[MainId])
  /\ ~(InvokeCrashed /\ arg[MainId] < 1)

\* the outcome with which the claim lets the check pass
Acceptable(o, e) ==
  \/ o.kind = "ret" /\ o.val >= 0 /\ o.val = e
  \/ o.kind = "throw" /\ e < 0

\* C3: the check passes (returns to its caller, nothing reported, process
\* running) exactly when invoke returned r with r >= 0 and r = expected, or
\* raised and expected < 0; in every other case it reports input, expected
\* and the actual outcome and the process ends with exit status 1, after
\* which nothing happens any more.
C3_CheckVerdict ==
  [][ /\ (Running /\ pc[MainId] = "check") =>
           IF Acceptable(outcome[MainId], expected[MainId])
           THEN /\ status' = "running"
                /\ pc'[MainId] = "sanity"
                /\ report' = report
           ELSE /\ status' = "exit1"
                /\ report'.input = arg[MainId]
                /\ report'.expected = expected[MainId]
                /\ report'.got.kind =
                     (IF outcome[MainId].kind = "ret" THEN "ret" ELSE "exception")
                /\ (outcome[MainId].kind = "ret"
                      => report'.got.val = outcome[MainId].val)
      /\ (status = "exit1" => UNCHANGED vars) ]_vars

C3_Witness ==
  /\ status = "exit1"
  /\ report = [input |-> 2, expected |-> -1, got |-> Ret(1)]

\* the largest element of a non-empty set of numbers
MaxOf(S) == CHOOSE m \in S : \A x \in S : x <= m

\* the threads a call of doTestMultithreaded has spawned
Spawned == 0..(spawned - 1)

\* doTestMultithreaded has returned to runTests from a call with a thread
\* count of at least 2
ThreadedReturned ==
  Running /\ pc[MainId] = "cell_done" /\ LessWord(One, threadCounts[tcIdx])

\* C4: for a thread count >= 2, whatever the interleaving of the workers'
\* loads and compare-exchanges (spurious failures included), the value
\* doTestMultithreaded returns after joining is the maximum of the durations
\* the threads measured, hence >= the duration of each thread's pass.
C4_MaximumReturned ==
  ThreadedReturned =>
    /\ cellResult = MaxOf({duration[t] : t \in Spawned})
    /\ \A t \in Spawned : cellResult >= duration[t]

C4_Witness ==
  /\ ThreadedReturned
  /\ duration[0] = MaxDuration
  /\ duration[1] = 1
  /\ cellResult = MaxDuration

\* thread t is inside a pass doTest(errorRate, seed)
DuringPass(t) ==
  \/ pc[t] \in {"pass_start", "outer", "inner"}
  \/ pc[t] \in {"invoke", "check"} /\ caller[t] = "pass"

\* doTestMultithreaded has returned to runTests from a call with a thread
\* count of at most 1
InlineReturned ==
  Running /\ pc[MainId] = "cell_done" /\ ~LessWord(One, threadCounts[tcIdx])

\* C5: with n <= 1 doTestMultithreaded runs exactly one pass on the calling
\* thread, seeded 0, and spawns no thread; with n >= 2 it spawns exactly n
\* threads, thread i running one pass seeded i, and it returns only when each
\* of them has finished its pass and its update of the shared maximum; no
\* worker is running outside a call.
C5_InlineOrJoined ==
  /\ DuringPass(MainId) =>
       /\ ~LessWord(One, threadCounts[tcIdx])
       /\ seed[MainId] = 0
       /\ spawned = 0
       /\ \A w \in Workers : pc[w] = "unborn"
  /\ InlineReturned =>
       /\ passesRun[MainId] = 1
       /\ spawned = 0
       /\ \A w \in Workers : pc[w] = "unborn" /\ passesRun[w] = 0
  /\ ThreadedReturned =>
       /\ FromNat(spawned) = threadCounts[tcIdx]
       /\ passesRun[MainId] = 0
       /\ \A w \in Spawned :
            /\ pc[w] = "joined"
            /\ seed[w] = w
            /\ passesRun[w] = 1
            /\ maxDuration >= duration[w]
       /\ \A w \in Workers \ Spawned : pc[w] = "unborn"
  /\ \A w \in Workers :
       pc[w] \notin {"unborn", "joined"} =>
         /\ pc[MainId] \in {"spawn", "join"}
         /\ w \in Spawned
         /\ seed[w] = w
         /\ passesRun[w] <= 1

C5_Witness ==
  /\ ThreadedReturned
  /\ spawned = 2
  /\ \A w \in Spawned : pc[w] = "joined" /\ passesRun[w] = 1 /\ seed[w] = w

\* thread t is in the loop body of a pass, between the construction and the
\* destruction of a unit
InLoopBody(t) ==
  \/ pc[t] = "inner"
  \/ pc[t] \in {"invoke", "check"} /\ caller[t] = "pass"

\* the number of live units thread t has constructed
LiveCount(t) ==
  Cardinality({u \in Procs : Live(jitCode[u]) /\ jitCode[u].ctor = t})
  + (IF Live(container) /\ container.ctor = t THEN 1 ELSE 0)

\* every invocation and destruction so far was made by the thread that had
\* constructed the unit
OwnUse == lastUse.by = lastUse.ctor

\* C6 as stated: during a stress pass each thread, the main thread included,
\* has exactly one live unit, and no unit is invoked or destroyed by a
\* thread other than the one that constructed it.
C6_Original ==
  Running =>
    /\ \A t \in Procs : InLoopBody(t) => LiveCount(t) = 1
    /\ OwnUse

\* C6 amended: in the loop body of a pass a thread has exactly one live unit
\* of that pass, which it constructed itself, and between two units of the
\* pass none; the main thread holds in addition the unit of the sanity test
\* through the whole sweep, so it has two live units in an inline pass; no
\* unit is invoked or destroyed by a thread other than the one that
\* constructed it.
C6_OwnUnits ==
  Running =>
    /\ \A t \in Procs :
         /\ Live(jitCode[t]) => jitCode[t].ctor = t
         /\ InLoopBody(t) =>
              /\ Live(jitCode[t])
              /\ LiveCount(t) = (IF t = MainId THEN 2 ELSE 1)
         /\ (DuringPass(t) /\ ~InLoopBody(t)) =>
              /\ ~Live(jitCode[t])
              /\ LiveCount(t) = (IF t = MainId THEN 1 ELSE 0)
    /\ OwnUse

C6_Witness ==
  /\ Running
  /\ pc[MainId] = "check" /\ caller[MainId] = "pass"
  /\ Live(container) /\ Live(jitCode[MainId])
  /\ LiveCount(MainId) = 2
  /\ lastUse = [op |-> "invoke", by |-> MainId, ctor |-> MainId]

\* C10 as stated: the construction of a unit aborts the process whenever the
\* engine cannot compile the function or resolve "foo"; no constructed unit
\* has an unresolved (null) entry point, and invoke is never reached on a
\* unit whose entry point was not resolved.
C10_Original ==
  /\ container.jitedCode # "null"
  /\ \A t \in Procs :
       /\ jitCode[t].jitedCode # "null"
       /\ pc[t] = "invoke" => Target(t).jitedCode # "null"

\* thread t has returned from its pass
PassReturned(t) == pc[t] \in {"cell_done", "load"} /\ passesRun[t] = 1

\* C7: a pass that meets no mismatch constructs exactly 10 units one after
\* the other and makes exactly 10,000 checked invocations on each (100,000
\* in all); unit k is destroyed before unit k+1 is constructed, every
\* invocation is made on a unit that is constructed and not yet destroyed,
\* every unit of the pass is destroyed before the pass returns, and the
\* duration it returns is >= 0.
C7_TenUnitsOfTenThousand ==
  Running =>
    \A t \in Procs :
      /\ pc[t] = "outer" =>
           /\ pass[t] <= 10
           /\ built[t] = pass[t] /\ torn[t] = pass[t]
           /\ ~Live(jitCode[t])
           /\ result[t] = 10000 * pass[t] /\ invoked[t] = 10000 * pass[t]
      /\ InLoopBody(t) =>
           /\ pass[t] < 10
           /\ built[t] = pass[t] + 1 /\ torn[t] = pass[t]
           /\ Live(jitCode[t])
           /\ index[t] <= 10000
           /\ result[t] = 10000 * pass[t] + index[t]
           /\ invoked[t] = result[t] + (IF pc[t] = "check" THEN 1 ELSE 0)
      /\ PassReturned(t) =>
           /\ built[t] = 10 /\ torn[t] = 10
           /\ ~Live(jitCode[t])
           /\ result[t] = 100000 /\ invoked[t] = 100000
           /\ duration[t] >= 0

\* the second unit of a pass has been constructed, after the destruction of
\* the first, on which 10,000 invocations were made
C7_Witness ==
  /\ Running
  /\ pc[MainId] = "inner" /\ DuringPass(MainId)
  /\ pass[MainId] = 1 /\ index[MainId] = 0
  /\ built[MainId] = 2 /\ torn[MainId] = 1
  /\ Live(jitCode[MainId])
  /\ invoked[MainId] = 10000 /\ result[MainId] = 10000

\* <<2^0 % m, ..., 2^(n-1) % m>>
RECURSIVE PowTable(_, _)
PowTable(n, m) ==
  IF n = 0 THEN <<>>
  ELSE LET t == PowTable(n - 1, m)
       IN  Append(t, IF n = 1 THEN 1 % m ELSE (2 * t[n - 1]) % m)

Pow2Mod1000 == PowTable(64, 1000)
Pow2Mod65536 == PowTable(64, 65536)

\* the number with the bits x, modulo m, from the residues of its bits
RECURSIVE Residue(_, _, _)
Residue(x, table, m) ==
  IF x = {} THEN 0
  ELSE LET i == CHOOSE j \in x : TRUE
       IN  (table[i + 1] + Residue(x \ {i}, table, m)) % m

\* thread t has generated the case of a round of its pass
Generated(t) == pc[t] \in {"invoke", "check"} /\ caller[t] = "pass"

\* C8: for every 64-bit draw r and every errorRate of {0, 1, 10, 100} the
\* generated input is -1 exactly when (r mod 1000) < errorRate and otherwise
\* (r mod 65536) + 1, which lies in [1, 65536]; the expected outcome is
\* computed from that input: -1 iff input < 1, otherwise 3*input+1 for odd
\* and input/2 for even input, which is >= 0; with errorRate 0 no input is
\* -1.
C8_GeneratedCase ==
  \A t \in Procs :
    Generated(t) =>
      /\ errorRate[t] \in {0, 1, 10, 100}
      /\ (arg[t] = -1) <=> (Residue(r[t], Pow2Mod1000, 1000) < errorRate[t])
      /\ arg[t] # -1 =>
           /\ arg[t] = Residue(r[t], Pow2Mod65536, 65536) + 1
           /\ arg[t] \in 1..65536
      /\ expected[t] = (IF arg[t] < 1 THEN -1
                        ELSE IF arg[t] % 2 = 1 THEN 3 * arg[t] + 1
                        ELSE arg[t] \div 2)
      /\ arg[t] >= 1 => expected[t] >= 0
      /\ errorRate[t] = 0 => arg[t] # -1

C8_Witness ==
  /\ Generated(MainId)
  /\ errorRate[MainId] = 1
  /\ r[MainId] = FromNat(1000)
  /\ arg[MainId] = -1
  /\ expected[MainId] = -1

\* the state of a generator constructed with seed sd after n draws
RECURSIVE RefState(_, _)
RefState(sd, n) ==
  IF n = 0 THEN RandomInit(sd) ELSE RandomStep(RefState(sd, n - 1))

\* what a generator on its own gives for seed sd at its draw n: the state
\* after the draw, the value drawn, and the input and the expected outcome
\* made of it under failure rate rate
RefCase(sd, rate, n) ==
  LET x == RefState(sd, n)
      a == GenArg(RandomValue(x), rate)
  IN  [state |-> x, r |-> RandomValue(x), arg |-> a,
       expected |-> GenExpected(a)]

\* the number of draws thread t has made in its pass
DrawsMade(t) ==
  pass[t] * limits.repeat
  + (IF pc[t] = "outer" THEN 0
     ELSE index[t] + (IF Generated(t) THEN 1 ELSE 0))

\* C9: two generators constructed with the same seed give the same value at
\* every draw index (state (seed << 1) | 1, per draw the three shift-xor
\* steps and the product with 0x2545F4914F6CDD1D, modulo 2^64), so a pass
\* with a given seed and errorRate produces the same (input, expected) at
\* every round whatever the other threads do: at its draw n, what a
\* generator on its own gives for that seed at draw n.
C9_SameSeedSameDraws ==
  [][ \A t \in Procs :
        (pc[t] = "inner" /\ pc'[t] = "invoke") =>
          [state |-> random'[t], r |-> r'[t], arg |-> arg'[t],
           expected |-> expected'[t]]
            = RefCase(seed[t], errorRate[t], DrawsMade(t) + 1) ]_vars

C9_Witness ==
  /\ errorRate[1] = 0 /\ seed[1] = 1
  /\ pc[1] = "check" /\ DrawsMade(1) = 2
  /\ arg[1] = 12120 /\ expected[1] = 6060
  /\ Generated(0) /\ seed[0] = 0

\* the position of the first argument of args that is not part of a
\* "--threads <value>" pair, 0 if there is none
RECURSIVE OtherFrom(_, _)
OtherFrom(args, i) ==
  IF i > Len(args) THEN 0
  ELSE IF args[i] = ThreadsOption /\ i + 1 <= Len(args)
       THEN OtherFrom(args, i + 2)
       ELSE i
FirstOther(args) == OtherFrom(args, 1)

\* C11: an argument vector with an argument other than a "--threads
\* <value>" pair makes main print "unknown option <arg>" and end with
\* status 1, and nothing else: the process ends in no other way, the native
\* target is never initialised, no unit is constructed, the sanity test
\* and the sweep never start
C11_Original ==
  FirstOther(argv) # 0 =>
    /\ status \in {"running", "exit1"}
    /\ status = "exit1" =>
         out = [text |-> "unknown option ", o |-> argv[FirstOther(argv)]]
    /\ pc[MainId] \in {"build", "args", "returned"}
    /\ llvmInits = 0
    /\ container = NoUnit
    /\ sanityIdx = 1
    /\ \A t \in Workers : pc[t] = "unborn"

\* the tokens of a --threads value, separated by one blank each
RECURSIVE Tokens(_)
Tokens(desc) ==
  IF Find(desc) = 0 THEN <<desc>>
  ELSE <<SubSeq(desc, 1, Find(desc) - 1)>>
       \o Tokens(SubSeq(desc, Find(desc) + 1, Len(desc)))

\* a decimal numeral, and an integer token: a numeral with an optional "-"
IsNumeral(tok) == Len(tok) > 0 /\ \A i \in 1..Len(tok) : IsDigit(tok[i])
IsInteger(tok) ==
  IsNumeral(tok) \/ (Len(tok) > 1 /\ tok[1] = "-" /\ IsNumeral(Tail(tok)))

\* the number a numeral denotes, and the number an integer token denotes
RECURSIVE Decimal(_)
Decimal(tok) ==
  IF Len(tok) = 0 THEN 0
  ELSE 10 * Decimal(SubSeq(tok, 1, Len(tok) - 1)) + DigitValue(tok[Len(tok)])
Denoted(tok) == IF tok[1] = "-" THEN -Decimal(Tail(tok)) ELSE Decimal(tok)

\* the values of the tokens in their order, without the zeros
RECURSIVE NonZeroValues(_)
NonZeroValues(toks) ==
  IF Len(toks) = 0 THEN <<>>
  ELSE (IF Denoted(toks[1]) = 0 THEN <<>> ELSE <<Denoted(toks[1])>>)
       \o NonZeroValues(Tail(toks))

\* the unsigned word c holds the number v
Holds(c, v) == v > 0 /\ c = FromNat(v)

\* main has taken a first pair "--threads <value>" whose value is made of
\* integer tokens
TookIntegers ==
  /\ Len(argv) >= 2
  /\ argv[1] = ThreadsOption
  /\ \A i \in 1..Len(Tokens(argv[2])) : IsInteger(Tokens(argv[2])[i])
  /\ pc[MainId] = "args"
  /\ argIndex = 3 \/ status # "running"

\* C12: once main has taken "--threads <value>" with a value of integer
\* tokens, threadCounts holds exactly the values of the tokens that are not
\* zero, in their order, and each element is a positive count
C12_Original ==
  TookIntegers =>
    /\ status = "running"
    /\ LET values == NonZeroValues(Tokens(argv[2])) IN
       /\ Len(threadCounts) = Len(values)
       /\ \A i \in 1..Len(values) : Holds(threadCounts[i], values[i])

\* twice the number of the word x, as a number (no bit is lost)
Doubled(x) == {i + 1 : i \in x}
\* the larger of two words
MaxWord(a, b) == IF LessWord(a, b) THEN b ELSE a

\* the list is the claimed result of buildThreadCounts(limit)
Built(threads, limit) ==
  /\ Len(threads) >= 1
  /\ threads[1] = One
  /\ \A i \in 1..(Len(threads) - 1) :
       /\ LessWord(threads[i], threads[i + 1])
       /\ threads[i + 1] = MinWord(Doubled(threads[i]), limit)
  /\ threads[Len(threads)] = MaxWord(One, limit)

\* buildThreadCounts returns
BuildReturns == pc[MainId] = "build" /\ pc'[MainId] = "args"

\* C18: for maxCount half of any hardware concurrency, buildThreadCounts
\* returns, and what it returns starts with 1, is strictly increasing,
\* has each following element the smaller of twice its predecessor and
\* maxCount, and ends with the larger of 1 and maxCount
C18_BuildThreadCounts ==
  /\ [][BuildReturns => Built(threadCounts', maxCount)]_vars
  /\ <>(pc[MainId] = "args")

\* the list built for the largest hardware concurrency: 31 powers of two
\* and 2^31 - 1, where twice the last power of two is capped
C18_Witness ==
  /\ pc[MainId] = "args"
  /\ Len(threadCounts) = 32
  /\ threadCounts[32] = 0..30

\* the cells of the sweep in rate-major order
AllCells ==
  LET n == Len(threadCounts) IN
  [k \in 1..(Len(FailureRates) * n) |->
     <<FailureRates[((k - 1) \div n) + 1], threadCounts[((k - 1) % n) + 1]>>]

\* sanityTest has returned, runTests is running or over
SweepStarted == sanityIdx > Len(SanityCases) /\ pc[MainId] # "sanity"

\* the calls made so far are the first cells of the sweep, each once and in
\* order; between two calls just the cells before the current position
\* have run and no worker thread exists; status 0 comes after the last
\* cell, status 1 after a reported mismatch
SweepInOrder ==
  /\ ~SweepStarted => cells = <<>>
  /\ Len(cells) <= Len(AllCells)
  /\ cells = SubSeq(AllCells, 1, Len(cells))
  /\ SweepStarted /\ pc[MainId] = "cell" =>
       /\ Len(cells) = (frIdx - 1) * Len(threadCounts) + tcIdx - 1
       /\ \A t \in Workers : pc[t] = "unborn"
  /\ status = "exit0" => cells = AllCells
  /\ SweepStarted /\ status = "exit1" => report # NoReport

\* C13 as stated: the sweep runs the orchestrator once per cell in
\* rate-major order and the process then exits with status 0; before the
\* last cell the process ends only with status 1 on a detected mismatch
C13_Original ==
  /\ SweepInOrder
  /\ SweepStarted => status \in {"running", "exit0", "exit1"}

\* C13, amended: the sweep runs the orchestrator once per cell in
\* rate-major order, one cell after the other; the process exits with
\* status 0 only after the last cell, and once the sweep has started it
\* ends otherwise only with status 1 on a reported mismatch, or by an
\* abort in the construction or destruction of a unit, or by the crash of
\* a call through an unresolved entry point
C13_SweepInOrder ==
  /\ SweepInOrder
  /\ SweepStarted /\ status = "abort" =>
       \/ \E t \in Procs : pc[t] \in {"outer", "inner"}
       \/ pc[MainId] = "cell" /\ ~InSweep
  /\ SweepStarted /\ status = "crash" =>
       \E t \in Procs : pc[t] = "invoke" /\ Target(t).jitedCode = "null"

\* the sweep over the thread counts 2, 1 has run its eight cells and the
\* process has exited with status 0
C13_Witness ==
  /\ status = "exit0"
  /\ threadCounts = <<{1}, One>>
  /\ Len(cells) = 8
  /\ cells[1] = <<0, {1}>> /\ cells[2] = <<0, One>> /\ cells[8] = <<100, One>>

\* thread t has an exception of the oracle in flight
Pending(t) == pc[t] = "check" /\ outcome[t].kind = "throw"

\* C14: an exception of the oracle is in flight only inside the check of
\* the thread whose invocation raised it; the step that ends it is that
\* thread's check, which either takes it as expected and goes on (no other
\* thread moves or receives an outcome) or ends the process with status 1;
\* it never ends the process in std::terminate, as an exception that left
\* a check, a pass or the function of a thread would
C14_HandledInCheck ==
  [][\A t \in Procs :
       /\ outcome'[t].kind = "throw" => pc'[t] = "check"
       /\ Pending(t) =>
            /\ status' \in {"running", "exit1", "abort", "crash"}
            /\ status' = "running" /\ ~Pending(t)' =>
                 /\ outcome'[t] = NoOutcome
                 /\ pc'[t] \in {"inner", "sanity"}
                 /\ expected[t] < 0
                 /\ \A u \in Procs \ {t} :
                      pc'[u] = pc[u] /\ outcome'[u] = outcome[u]
            /\ status' = "exit1" /\ ~(\E u \in Procs \ {t} : pc[u] = "check") =>
                 report' = Report(arg[t], expected[t], outcome[t])]_vars

\* a worker thread has had an exception thrown through its unit's foo and
\* has caught it, while another thread is in its pass
C14_Witness ==
  \E t \in Workers :
    /\ status = "running"
    /\ pc[t] = "inner"
    /\ index[t] > 0
    /\ arg[t] < 1
    /\ jitCode[t].jitedCode = "foo"
    /\ lastUse = [op |-> "invoke", by |-> t, ctor |-> t]
    /\ \E u \in Workers \ {t} : DuringPass(u)

\* a unit is being constructed or has been constructed
UnitTouched ==
  \/ pc[MainId] = "container"
  \/ container # NoUnit
  \/ lastUse.op # "none"
  \/ \E t \in Procs : built[t] > 0 \/ jitCode[t] # NoUnit \/ DuringPass(t)

\* a thread has been spawned
ThreadSpawned == spawned > 0 \/ \E t \in Workers : pc[t] # "unborn"

\* C15: the native target is initialised at most once; whenever a unit is
\* under construction or exists (main's unit of the sanity test, the unit
\* of a pass on any thread) or a thread has been spawned, it has been
\* initialised, once; a run that ends with status 0 has initialised it once
C15_InitialisedOnceBefore ==
  /\ llvmInits \in {0, 1}
  /\ UnitTouched \/ ThreadSpawned => llvmInits = 1
  /\ status = "exit0" => llvmInits = 1

\* two threads in their passes, each with a unit of its own, next to
\* main's unit
C15_Witness ==
  /\ llvmInits = 1
  /\ container # NoUnit
  /\ spawned = 2
  /\ \A t \in 0..1 : built[t] > 0 /\ jitCode[t] # NoUnit

\* thread t leaves the loop of its final update
LeavesLoop(t) == pc[t] = "cas" /\ pc'[t] = "finished"

\* C17: a worker leaves the loop only in a step in which its
\* compare-exchange replaces the value it expected by its own duration, or
\* with an observed value that is not smaller than its duration (and then
\* it writes nothing); while the process runs, a step of its update is
\* always possible, whatever the other threads do; and every worker that
\* has reached its update finishes it, unless the process ends
C17_LockFreeUpdate ==
  /\ [][\A t \in Workers : LeavesLoop(t) =>
          \/ /\ duration[t] > current[t]
             /\ maxDuration = current[t]
             /\ maxDuration' = duration[t]
          \/ /\ duration[t] <= current[t]
             /\ maxDuration' = maxDuration]_vars
  /\ [](\A t \in Workers :
         Running /\ pc[t] \in {"load", "cas"} => ENABLED Update(t))
  /\ \A t \in Workers : pc[t] = "load" ~> (pc[t] = "finished" \/ ~Running)

\* a thread has replaced the duration another thread had written before
\* by its own, larger one
C17_Witness ==
  \E t, u \in Workers :
    /\ pc[t] = "finished" /\ pc[u] = "finished"
    /\ 0 < duration[u] /\ duration[u] < duration[t]
    /\ current[u] = 0 /\ current[t] = duration[u]
    /\ maxDuration = duration[t]

\* main is inside a call of doTestMultithreaded with threads
InThreadedCall == pc[MainId] \in {"spawn", "join"}

\* thread t has completed its pass: all its units, all their rounds
PassCompleted(t) ==
  /\ passesRun[t] = 1
  /\ invoked[t] = limits.functionRepeat * limits.repeat
  /\ pc[t] \in {"load", "cas", "finished", "joined"}

\* C19: inside a call of doTestMultithreaded with threads no step makes
\* the shared maximum smaller, and the maximum is 0 or the duration of a
\* thread of the call that has completed its pass
C19_MaximumOfCompleted ==
  [][/\ InThreadedCall /\ InThreadedCall' => maxDuration' >= maxDuration
     /\ InThreadedCall' =>
          \/ maxDuration' = 0
          \/ \E t \in Workers :
               PassCompleted(t)' /\ duration'[t] = maxDuration']_vars

\* the maximum holds the duration of a thread that is done while another
\* thread of the call is still in its pass
C19_Witness ==
  /\ InThreadedCall
  /\ maxDuration = MaxDuration
  /\ \E t, u \in Workers :
       /\ pc[t] = "finished" /\ duration[t] = maxDuration
       /\ DuringPass(u) /\ invoked[u] > 0

\* the generator of thread t has been constructed
HasGenerator(t) == DuringPass(t) /\ pc[t] # "pass_start"

\* C20: the state of a generator is not zero, after its construction from
\* any seed and after every draw
C20_StateNotZero ==
  \A t \in Procs : HasGenerator(t) => random[t] # {}

\* the generator of the largest seed after its last draw: its state has
\* moved on from the constructed one
C20_Witness ==
  /\ pc[MainId] = "inner"
  /\ index[MainId] = MaxDraws
  /\ seed[MainId] = MaxSeed
  /\ random[MainId] # RandomInit(MaxSeed)
  /\ random[MainId] # {}

\* the outcome of the first invocation with input v, on whichever unit
FirstOutcome(v) == (CHOOSE p \in seen : p[1] = v)[2]

\* thread t has made a tracked invocation with an input that is in the
\* history: the invocation has returned or thrown, or it has crashed
Reinvoked(t) ==
  /\ \E p \in seen : p[1] = arg[t]
  /\ \/ pc[t] = "check"
     \/ pc[t] = "invoke" /\ status = "crash" /\ lastUse.by = t

\* C16: whatever units have been constructed and destroyed before, on this
\* thread or on others, an invocation of a unit gives the outcome that the
\* first invocation with the same input gave
C16_Original ==
  \A t \in Procs :
    Reinvoked(t) =>
      pc[t] = "check" /\ (Tracked(t) => outcome[t] = FirstOutcome(arg[t]))

====
